---- MODULE Spec2Model ----
(***************************************************************************)
(* A model of gitblobts.store.Store: time-indexed blobs kept as files of a *)
(* git working copy.  File names are base64 tokens of                      *)
(* (timestamp_ns << NUM_RANDOM_BITS) | nonce with a format-version suffix. *)
(*                                                                         *)
(* Python integers are unbounded while TLC's are 32 bit wide, so the model *)
(* is scaled: the nonce has NUM_RANDOM_BITS bits (256 in config.py) and    *)
(* canonical timestamps are a few nanoseconds either side of the epoch,    *)
(* chosen so that merged values cross the one-byte/two-byte boundary.      *)
(* A number of seconds (a Python int or float) is represented in fixed     *)
(* point as a count of half nanoseconds.                                   *)
(***************************************************************************)
EXTENDS Integers, Sequences, FiniteSets, TLC

(***************************************************************************)
(* Bounds of the model.                                                    *)
(***************************************************************************)
\* width of the random nonce (config.NUM_RANDOM_BITS is 256; scaled)
NUM_RANDOM_BITS == 1
\* a write is only started while the directory holds fewer record files
MaxFiles == 2
\* pairs one addblobs call consumes at most
MaxBatch == 2

(***************************************************************************)
(* Program constants.                                                      *)
(***************************************************************************)
FILE_VERSION == 1
\* half nanoseconds per nanosecond: the fixed-point unit of "seconds"
HalfNsPerNs == 2

(***************************************************************************)
(* Integer helpers: Python's unbounded two's complement operators.         *)
(***************************************************************************)
RECURSIVE Pow2(_)
Pow2(n) == IF n = 0 THEN 1 ELSE 2 * Pow2(n - 1)

Abs(i) == IF i < 0 THEN -i ELSE i

\* int.bit_length(): bits of the absolute value
RECURSIVE bit_length(_)
bit_length(i) == IF i = 0 THEN 0 ELSE 1 + bit_length(Abs(i) \div 2)

\* a | b on unbounded two's complement integers
RECURSIVE BitOr(_, _)
BitOr(a, b) ==
    IF a = 0 THEN b
    ELSE IF b = 0 THEN a
    ELSE IF a = -1 \/ b = -1 THEN -1
    ELSE 2 * BitOr(a \div 2, b \div 2) + (IF a % 2 = 1 \/ b % 2 = 1 THEN 1 ELSE 0)

\* a & b on unbounded two's complement integers
RECURSIVE BitAnd(_, _)
BitAnd(a, b) ==
    IF a = 0 \/ b = 0 THEN 0
    ELSE IF a = -1 THEN b
    ELSE IF b = -1 THEN a
    ELSE 2 * BitAnd(a \div 2, b \div 2) + (a % 2) * (b % 2)

\* a << n and a >> n (arithmetic: floor division keeps the sign)
ShiftLeft(a, n) == a * Pow2(n)
ShiftRight(a, n) == a \div Pow2(n)

(***************************************************************************)
(* IntMerger                                                               *)
(***************************************************************************)
max_int(num_bits) == ShiftLeft(1, num_bits) - 1

\* IntMerger(num_bits_int2).merge(int1, int2)
IntMerger_merge(num_bits_int2, int1, int2) == BitOr(ShiftLeft(int1, num_bits_int2), int2)

\* variant: the shift rounds toward zero, which loses the sign of a small
\* negative int1
IntMerger_split_toward_zero(num_bits_int2, int12) ==
    <<IF int12 < 0 THEN -((-int12) \div Pow2(num_bits_int2)) ELSE int12 \div Pow2(num_bits_int2),
      BitAnd(int12, max_int(num_bits_int2))>>

\* IntMerger(num_bits_int2).split(int12)
IntMerger_split(num_bits_int2, int12) ==
    <<ShiftRight(int12, num_bits_int2), BitAnd(int12, max_int(num_bits_int2))>>

\* self._int_merger = IntMerger(config.NUM_RANDOM_BITS)
merge(int1, int2) == IntMerger_merge(NUM_RANDOM_BITS, int1, int2)

\* variant: the high part by a division that truncates toward zero
split_truncating(int12) ==
    <<IF int12 < 0 THEN -((-int12) \div Pow2(NUM_RANDOM_BITS)) ELSE int12 \div Pow2(NUM_RANDOM_BITS),
      BitAnd(int12, max_int(NUM_RANDOM_BITS))>>

split(int12) == IntMerger_split(NUM_RANDOM_BITS, int12)

(***************************************************************************)
(* IntBaseEncoder over urlsafe base64.  Text is a sequence of ASCII codes. *)
(***************************************************************************)
\* a call either returns a value or raises; results are never compared whole
Ok(value) == [ok |-> TRUE, v |-> value]
Raise(kind) == [ok |-> FALSE, v |-> kind]

PadChar == 61
DotChar == 46

\* the urlsafe base64 alphabet: A-Z a-z 0-9 - _
urlsafe_char(s) ==
    IF s < 26 THEN 65 + s
    ELSE IF s < 52 THEN 97 + (s - 26)
    ELSE IF s < 62 THEN 48 + (s - 52)
    ELSE IF s = 62 THEN 45
    ELSE 95

\* the 6-bit value of a character, -1 when it is not of the alphabet
urlsafe_value(c) ==
    IF c >= 65 /\ c <= 90 THEN c - 65
    ELSE IF c >= 97 /\ c <= 122 THEN c - 97 + 26
    ELSE IF c >= 48 /\ c <= 57 THEN c - 48 + 52
    ELSE IF c = 45 \/ c = 43 THEN 62
    ELSE IF c = 95 \/ c = 47 THEN 63
    ELSE -1

bytes_length(i, signed) == (bit_length(i) + 7 + (IF signed THEN 1 ELSE 0)) \div 8

RECURSIVE Pow256(_)
Pow256(n) == IF n = 0 THEN 1 ELSE 256 * Pow256(n - 1)

\* int.to_bytes(length, byteorder='big', signed=signed); OverflowError when
\* the value does not fit
to_bytes(i, length, signed) ==
    LET lo == IF signed THEN -(Pow256(length) \div 2) ELSE 0
        hi == IF signed THEN Pow256(length) \div 2 - 1 ELSE Pow256(length) - 1
        u  == IF i < 0 THEN i + Pow256(length) ELSE i
    IN  IF length = 0
        THEN IF i = 0 THEN Ok(<<>>) ELSE Raise("OverflowError")
        ELSE IF i < lo \/ i > hi THEN Raise("OverflowError")
        ELSE Ok([k \in 1..length |-> (u \div Pow256(length - k)) % 256])

RECURSIVE unsigned_from_bytes(_)
unsigned_from_bytes(b) ==
    IF b = <<>> THEN 0
    ELSE 256 * unsigned_from_bytes(SubSeq(b, 1, Len(b) - 1)) + b[Len(b)]

\* int.from_bytes(bytes, byteorder='big', signed=signed)
from_bytes(b, signed) ==
    LET u == unsigned_from_bytes(b)
    IN  IF signed /\ b # <<>> /\ b[1] >= 128 THEN u - Pow256(Len(b)) ELSE u

\* base64.urlsafe_b64encode: 3 bytes to 4 characters, '=' padding
RECURSIVE urlsafe_b64encode(_)
urlsafe_b64encode(b) ==
    IF b = <<>> THEN <<>>
    ELSE IF Len(b) = 1 THEN
        LET n == b[1] * 65536
        IN  <<urlsafe_char(n \div 262144), urlsafe_char((n \div 4096) % 64), PadChar, PadChar>>
    ELSE IF Len(b) = 2 THEN
        LET n == b[1] * 65536 + b[2] * 256
        IN  <<urlsafe_char(n \div 262144), urlsafe_char((n \div 4096) % 64),
              urlsafe_char((n \div 64) % 64), PadChar>>
    ELSE
        LET n == b[1] * 65536 + b[2] * 256 + b[3]
        IN  <<urlsafe_char(n \div 262144), urlsafe_char((n \div 4096) % 64),
              urlsafe_char((n \div 64) % 64), urlsafe_char(n % 64)>>
            \o urlsafe_b64encode(SubSeq(b, 4, Len(b)))

\* the characters the decoder keeps: alphabet and padding; anything else
\* (such as the '.' that pathlib leaves on a suffix) is discarded
RECURSIVE keep_base64(_)
keep_base64(s) ==
    IF s = <<>> THEN <<>>
    ELSE IF urlsafe_value(s[1]) >= 0 \/ s[1] = PadChar
         THEN <<s[1]>> \o keep_base64(Tail(s))
         ELSE keep_base64(Tail(s))

\* the leading run of alphabet characters, as 6-bit values
RECURSIVE leading_sextets(_)
leading_sextets(s) ==
    IF s = <<>> \/ s[1] = PadChar THEN <<>>
    ELSE <<urlsafe_value(s[1])>> \o leading_sextets(Tail(s))

RECURSIVE leading_pads(_)
leading_pads(s) ==
    IF s = <<>> \/ s[1] # PadChar THEN 0 ELSE 1 + leading_pads(Tail(s))

RECURSIVE sextets_to_bytes(_)
sextets_to_bytes(x) ==
    IF Len(x) < 2 THEN <<>>
    ELSE IF Len(x) = 2 THEN <<(x[1] * 64 + x[2]) \div 16>>
    ELSE IF Len(x) = 3 THEN
        LET n == x[1] * 4096 + x[2] * 64 + x[3]
        IN  <<n \div 1024, (n \div 4) % 256>>
    ELSE
        LET n == x[1] * 262144 + x[2] * 4096 + x[3] * 64 + x[4]
        IN  <<n \div 65536, (n \div 256) % 256, n % 256>>
            \o sextets_to_bytes(SubSeq(x, 5, Len(x)))

\* base64.urlsafe_b64decode (not validating): binascii.Error on a bad length
\* or on missing padding
urlsafe_b64decode(s) ==
    LET kept == keep_base64(s)
        x    == leading_sextets(kept)
        pads == leading_pads(SubSeq(kept, Len(x) + 1, Len(kept)))
        r    == Len(x) % 4
    IN  IF r = 1 THEN Raise("binascii.Error")
        ELSE IF r = 2 /\ pads < 2 THEN Raise("binascii.Error")
        ELSE IF r = 3 /\ pads < 1 THEN Raise("binascii.Error")
        ELSE Ok(sextets_to_bytes(x))

\* base64.b64encode: the same with + and / for - and _
b64encode(b) ==
    LET u == urlsafe_b64encode(b)
    IN  [k \in DOMAIN u |-> IF u[k] = 45 THEN 43 ELSE IF u[k] = 95 THEN 47 ELSE u[k]]

\* base64.b64decode (not validating): - and _ are not of its alphabet
b64decode(s) == urlsafe_b64decode(SelectSeq(s, LAMBDA c : c # 45 /\ c # 95))

\* the digits 0-9 A-F
hex_char(v) == IF v < 10 THEN 48 + v ELSE 55 + v

hex_value(c) ==
    IF c >= 48 /\ c <= 57 THEN c - 48
    ELSE IF c >= 65 /\ c <= 70 THEN c - 55
    ELSE -1

\* base64.b16encode
RECURSIVE b16encode(_)
b16encode(b) ==
    IF b = <<>> THEN <<>>
    ELSE <<hex_char(b[1] \div 16), hex_char(b[1] % 16)>> \o b16encode(Tail(b))

\* base64.b16decode (casefold=False)
b16decode(s) ==
    IF \E k \in DOMAIN s : hex_value(s[k]) < 0 THEN Raise("binascii.Error")
    ELSE IF Len(s) % 2 = 1 THEN Raise("binascii.Error")
    ELSE Ok([k \in 1..(Len(s) \div 2) |-> 16 * hex_value(s[2 * k - 1]) + hex_value(s[2 * k])])

\* the base32 alphabet A-Z 2-7
b32_char(v) == IF v < 26 THEN 65 + v ELSE 24 + v

b32_value(c) ==
    IF c >= 65 /\ c <= 90 THEN c - 65
    ELSE IF c >= 50 /\ c <= 55 THEN c - 24
    ELSE -1

\* bit k (1 the most significant) of the concatenation of these numbers of
\* width bits each; 0 beyond its end
bit_at(numbers, width, k) ==
    LET n == (k - 1) \div width + 1
        shift == width - 1 - ((k - 1) % width)
    IN  IF n > Len(numbers) THEN 0 ELSE (numbers[n] \div Pow2(shift)) % 2

\* the concatenated bits regrouped: count numbers of to_width bits each
regroup(numbers, width, to_width, count) ==
    LET value(n, j) == bit_at(numbers, width, (n - 1) * to_width + j) * Pow2(to_width - j)
        RECURSIVE sum(_, _)
        sum(n, j) == IF j = 0 THEN 0 ELSE value(n, j) + sum(n, j - 1)
    IN  [n \in 1..count |-> sum(n, to_width)]

\* base64.b32encode: 5 bytes to 8 characters, '=' padding to a multiple of 8
b32encode(b) ==
    LET count == (8 * Len(b) + 4) \div 5
        quintets == regroup(b, 8, 5, count)
        pads == (8 - (count % 8)) % 8
    IN  [k \in 1..count |-> b32_char(quintets[k])] \o [k \in 1..pads |-> PadChar]

RECURSIVE rstrip_pads(_)
rstrip_pads(s) ==
    IF s # <<>> /\ s[Len(s)] = PadChar THEN rstrip_pads(SubSeq(s, 1, Len(s) - 1)) ELSE s

\* base64.b32decode (casefold=False, map01=None)
b32decode(s) ==
    LET stripped == rstrip_pads(s)
        padchars == Len(s) - Len(stripped)
        quintets == [k \in DOMAIN stripped |-> b32_value(stripped[k])]
    IN  IF Len(s) % 8 # 0 THEN Raise("binascii.Error")
        ELSE IF \E k \in DOMAIN quintets : quintets[k] < 0 THEN Raise("binascii.Error")
        ELSE IF padchars \notin {0, 1, 3, 4, 6} THEN Raise("binascii.Error")
        ELSE Ok(regroup(quintets, 5, 8, (5 * Len(stripped)) \div 8))

\* the base85 alphabet of base64.b85encode:
\* 0-9 A-Z a-z ! # $ % & ( ) * + - ; < = > ? @ ^ _ ` { | } ~
B85Symbols == <<33, 35, 36, 37, 38, 40, 41, 42, 43, 45, 59, 60, 61, 62, 63, 64, 94, 95, 96,
                123, 124, 125, 126>>

b85_char(v) ==
    IF v < 10 THEN 48 + v
    ELSE IF v < 36 THEN 55 + v
    ELSE IF v < 62 THEN 61 + v
    ELSE B85Symbols[v - 61]

b85_value(c) ==
    IF \E v \in 0..84 : b85_char(v) = c THEN CHOOSE v \in 0..84 : b85_char(v) = c ELSE -1

\* the five base-85 digits of a 4-byte word; the word is held as two 16-bit
\* halves so that no intermediate value exceeds 32 bits
RECURSIVE b85_digits(_, _, _)
b85_digits(hi, lo, n) ==
    IF n = 0 THEN <<>>
    ELSE LET rest == (hi % 85) * 65536 + lo
         IN  b85_digits(hi \div 85, rest \div 85, n - 1) \o <<rest % 85>>

\* base64.b85encode (pad=False): 4 bytes to 5 characters; the input is padded
\* with zero bytes and as many characters are dropped from the end
RECURSIVE b85encode_words(_)
b85encode_words(b) ==
    IF b = <<>> THEN <<>>
    ELSE LET digits == b85_digits(b[1] * 256 + b[2], b[3] * 256 + b[4], 5)
         IN  [k \in 1..5 |-> b85_char(digits[k])] \o b85encode_words(SubSeq(b, 5, Len(b)))

b85encode(b) ==
    LET padding == (4 - (Len(b) % 4)) % 4
        chars == b85encode_words(b \o [k \in 1..padding |-> 0])
    IN  SubSeq(chars, 1, Len(chars) - padding)

\* five digits to [hi, lo], the two halves of the word they denote; hi is
\* 65536 or more when the word does not fit 32 bits
RECURSIVE b85_word(_, _, _)
b85_word(digits, hi, lo) ==
    IF digits = <<>> THEN <<hi, lo>>
    ELSE LET low == lo * 85 + digits[1]
         IN  b85_word(Tail(digits), hi * 85 + (low \div 65536), low % 65536)

RECURSIVE b85decode_words(_)
b85decode_words(digits) ==
    IF digits = <<>> THEN Ok(<<>>)
    ELSE LET word == b85_word(SubSeq(digits, 1, 5), 0, 0)
             rest == b85decode_words(SubSeq(digits, 6, Len(digits)))
         IN  IF word[1] >= 65536 THEN Raise("ValueError")
             ELSE IF ~rest.ok THEN rest
             ELSE Ok(<<word[1] \div 256, word[1] % 256, word[2] \div 256, word[2] % 256>>
                     \o rest.v)

\* base64.b85decode: the input is padded with '~' and as many bytes are
\* dropped from the end; ValueError on a bad character or an overflow
b85decode(s) ==
    LET padding == (5 - (Len(s) % 5)) % 5
        digits == [k \in DOMAIN s |-> b85_value(s[k])] \o [k \in 1..padding |-> 84]
        words == b85decode_words(digits)
    IN  IF \E k \in DOMAIN digits : digits[k] < 0 THEN Raise("ValueError")
        ELSE IF ~words.ok THEN words
        ELSE Ok(SubSeq(words.v, 1, Len(words.v) - padding))

\* encodings of the base64 module that the tests and config.py name
ENCODINGS == {"b85", "b64", "urlsafe_b64", "b32", "b16"}

\* getattr(base64, f'{encoding}encode')
encoder(encoding, b) ==
    CASE encoding = "b85" -> b85encode(b)
      [] encoding = "b64" -> b64encode(b)
      [] encoding = "urlsafe_b64" -> urlsafe_b64encode(b)
      [] encoding = "b32" -> b32encode(b)
      [] encoding = "b16" -> b16encode(b)

\* getattr(base64, f'{encoding}decode')
decoder(encoding, s) ==
    CASE encoding = "b85" -> b85decode(s)
      [] encoding = "b64" -> b64decode(s)
      [] encoding = "urlsafe_b64" -> urlsafe_b64decode(s)
      [] encoding = "b32" -> b32decode(s)
      [] encoding = "b16" -> b16decode(s)

\* IntBaseEncoder.__init__: self.bytes_length; bits is 0 for None (and a
\* bits of 0 is as good as None), 0 stands for None in the result
IntBaseEncoder_bytes_length(bits, signed) ==
    IF bits = 0 THEN 0 ELSE bytes_length(Pow2(bits) - 1, signed)

\* IntBaseEncoder(encoding, bits=bits, signed=signed).encode(i)
IntBaseEncoder_encode(encoding, bits, signed, i) ==
    LET fixed == IntBaseEncoder_bytes_length(bits, signed)
        length == IF fixed # 0 THEN fixed ELSE bytes_length(i, signed)
        i_bytes == to_bytes(i, length, signed)
    IN  IF i_bytes.ok THEN Ok(encoder(encoding, i_bytes.v)) ELSE i_bytes

\* variant: the sign is not read back
IntBaseEncoder_decode_unsigned(encoding, signed, b64) ==
    LET i_bytes == decoder(encoding, b64)
    IN  IF i_bytes.ok THEN Ok(from_bytes(i_bytes.v, FALSE)) ELSE i_bytes

\* IntBaseEncoder(encoding, signed=signed).decode(b64)
IntBaseEncoder_decode(encoding, signed, b64) ==
    LET i_bytes == decoder(encoding, b64)
    IN  IF i_bytes.ok THEN Ok(from_bytes(i_bytes.v, signed)) ELSE i_bytes

FILENAME_ENCODING == "urlsafe_b64"

\* the encoders of a Store: IntBaseEncoder(config.FILENAME_ENCODING,
\* signed=signed), of variable width
encode(i, signed) == IntBaseEncoder_encode(FILENAME_ENCODING, 0, signed, i)

decode(b64, signed) == IntBaseEncoder_decode(FILENAME_ENCODING, signed, b64)

(***************************************************************************)
(* pathlib: the suffix of a name starts at its last dot (kept), unless the *)
(* dot is the first or the last character.                                 *)
(***************************************************************************)
RECURSIVE rfind_dot(_)
rfind_dot(name) ==
    IF name = <<>> THEN 0
    ELSE IF name[Len(name)] = DotChar THEN Len(name)
    ELSE rfind_dot(SubSeq(name, 1, Len(name) - 1))

path_suffix(name) ==
    LET i == rfind_dot(name)
    IN  IF 1 < i /\ i < Len(name) THEN SubSeq(name, i, Len(name)) ELSE <<>>

path_stem(name) ==
    LET i == rfind_dot(name)
    IN  IF 1 < i /\ i < Len(name) THEN SubSeq(name, 1, i - 1) ELSE name

(***************************************************************************)
(* Store: names                                                            *)
(***************************************************************************)
\* self._file_suffix_encoder.encode(version).decode()
file_suffix_encoded(version) == encode(version, FALSE).v

\* Store._encode_name, with the nonce secrets.randbits drew; the version is
\* config.FILE_VERSION for this package and larger for a newer writer
encode_name_version(timestamp_ns, random, version) ==
    encode(merge(timestamp_ns, random), TRUE).v \o <<DotChar>> \o file_suffix_encoded(version)

encode_name(timestamp_ns, random) == encode_name_version(timestamp_ns, random, FILE_VERSION)

\* Store._decode_name
decode_name(filepath) ==
    LET version == decode(path_suffix(filepath), FALSE)
    IN  IF ~version.ok THEN version
        ELSE IF version.v > FILE_VERSION THEN Raise("BlobVersionUnsupported")
        ELSE LET stem == decode(path_stem(filepath), TRUE)
             IN  IF stem.ok THEN Ok(split(stem.v)[1]) ELSE stem

(***************************************************************************)
(* Store: timestamps.  A caller's timestamp is a record [kind, x]:         *)
(*   "None"                      no timestamp                              *)
(*   "num"                       a finite int or float of x half ns        *)
(*   "nan", "inf", "-inf"        the non-finite floats                     *)
(*   "struct"                    a time.struct_time that calendar.timegm   *)
(*                               or time.mktime converts to x half ns      *)
(*   "str"                       text that dateparser parses to x half ns  *)
(*   "badstr"                    text that dateparser cannot parse         *)
(*   "other"                     a value of any other type                 *)
(***************************************************************************)
Time(kind, x) == [kind |-> kind, x |-> x]

\* int(round(seconds * int(1e9))): Python rounds a half to the even integer
convert_seconds_to_ns(seconds) ==
    LET q == seconds \div HalfNsPerNs
    IN  IF seconds % HalfNsPerNs = 0 THEN q
        ELSE IF q % 2 = 0 THEN q
        ELSE q + 1

\* variant: without the math.isfinite check, int(round(...)) raises on a
\* non-finite float
standardize_time_to_ns_unchecked(timestamp, time_ns) ==
    IF timestamp.kind = "None" THEN Ok(time_ns)
    ELSE IF timestamp.kind \in {"inf", "-inf"} THEN Raise("OverflowError")
    ELSE IF timestamp.kind = "nan" THEN Raise("ValueError")
    ELSE IF timestamp.kind \in {"num", "struct", "str"}
    THEN Ok(convert_seconds_to_ns(timestamp.x))
    ELSE IF timestamp.kind = "badstr" THEN Raise("TimeInvalid")
    ELSE Raise("TimeUnhandledType")

\* Store._standardize_time_to_ns; time_ns is what time.time_ns() returns
standardize_time_to_ns(timestamp, time_ns) ==
    IF timestamp.kind = "None" THEN Ok(time_ns)
    ELSE IF timestamp.kind = "num" /\ timestamp.x = 0 THEN Ok(0)
    ELSE IF timestamp.kind \in {"num", "nan", "inf", "-inf"} THEN
        IF timestamp.kind # "num" THEN Raise("TimeInvalid")
        ELSE Ok(convert_seconds_to_ns(timestamp.x))
    ELSE IF timestamp.kind = "struct" THEN Ok(convert_seconds_to_ns(timestamp.x))
    ELSE IF timestamp.kind \in {"str", "badstr"} THEN
        IF timestamp.kind = "badstr" THEN Raise("TimeInvalid")
        ELSE Ok(convert_seconds_to_ns(timestamp.x))
    ELSE Raise("TimeUnhandledType")

(***************************************************************************)
(* Store: the blob pipeline.  The compression module and Fernet are        *)
(* libraries; they are modelled by a run-length code and by a keyed        *)
(* additive cipher with a one-byte authentication tag.                     *)
(***************************************************************************)
\* self._compression.compress: (count, byte) pairs of the runs
RECURSIVE run_length(_, _)
run_length(b, byte) ==
    IF b = <<>> \/ b[1] # byte THEN 0 ELSE 1 + run_length(Tail(b), byte)

RECURSIVE compress(_)
compress(b) ==
    IF b = <<>> THEN <<>>
    ELSE LET n == run_length(b, b[1])
         IN  <<n, b[1]>> \o compress(SubSeq(b, n + 1, Len(b)))

\* self._compression.decompress
RECURSIVE decompress(_)
decompress(b) ==
    IF b = <<>> THEN Ok(<<>>)
    ELSE IF Len(b) = 1 \/ b[1] = 0 THEN Raise("DecompressError")
    ELSE LET rest == decompress(SubSeq(b, 3, Len(b)))
         IN  IF rest.ok THEN Ok([k \in 1..b[1] |-> b[2]] \o rest.v) ELSE rest

RECURSIVE SumBytes(_)
SumBytes(b) == IF b = <<>> THEN 0 ELSE b[1] + SumBytes(Tail(b))

fernet_tag(key, iv, body) == (SumBytes(body) + 3 * key + iv) % 256

\* Fernet.encrypt: iv, ciphertext, authentication tag
fernet_encrypt(key, iv, b) ==
    LET body == [k \in 1..Len(b) |-> (b[k] + key + iv) % 256]
    IN  <<iv>> \o body \o <<fernet_tag(key, iv, body)>>

\* Fernet.decrypt: InvalidToken unless the tag matches
fernet_decrypt(key, token) ==
    IF Len(token) < 2 THEN Raise("InvalidToken")
    ELSE LET iv   == token[1]
             body == SubSeq(token, 2, Len(token) - 1)
         IN  IF token[Len(token)] # fernet_tag(key, iv, body) THEN Raise("InvalidToken")
             ELSE Ok([k \in 1..Len(body) |-> (body[k] - key - iv) % 256])

\* a Store's configuration: self._compression (set or None) and the Fernet
\* key (0 for None)
Config(compression, key) == [compression |-> compression, key |-> key]

compress_blob(cfg, blob) == IF cfg.compression THEN compress(blob) ELSE blob

decompress_blob(cfg, blob) == IF cfg.compression THEN decompress(blob) ELSE Ok(blob)

encrypt_blob(cfg, iv, blob) == IF cfg.key # 0 THEN fernet_encrypt(cfg.key, iv, blob) ELSE blob

decrypt_blob(cfg, blob) == IF cfg.key # 0 THEN fernet_decrypt(cfg.key, blob) ELSE Ok(blob)

\* variant: the stages in the other order
ingress_blob_encrypt_first(cfg, iv, blob) == compress_blob(cfg, encrypt_blob(cfg, iv, blob))

\* Store._ingress_blob
ingress_blob(cfg, iv, blob) == encrypt_blob(cfg, iv, compress_blob(cfg, blob))

\* Store._egress_blob
egress_blob(cfg, blob) ==
    LET decrypted == decrypt_blob(cfg, blob)
    IN  IF decrypted.ok THEN decompress_blob(cfg, decrypted.v) ELSE decrypted

(***************************************************************************)
(* Store: the range query of getblobs, as a function of the directory.     *)
(***************************************************************************)
\* a normalized bound: an integer (inf = 0) or -math.inf / math.inf
Finite(value) == [inf |-> 0, v |-> value]
NegInf == [inf |-> -1, v |-> 0]
PosInf == [inf |-> 1, v |-> 0]

\* a <= b on Python numbers that may be infinite
bound_leq(a, b) ==
    IF a.inf # b.inf THEN a.inf < b.inf
    ELSE a.inf # 0 \/ a.v <= b.v

\* the inner standardize_time_to_ns of getblobs
getblobs_standardize(timestamp, default, time_ns) ==
    IF timestamp.kind = "None" THEN Ok(default)
    ELSE IF timestamp.kind = "nan" THEN Ok(default)
    ELSE IF timestamp.kind = "inf" THEN Ok(PosInf)
    ELSE IF timestamp.kind = "-inf" THEN Ok(NegInf)
    ELSE LET r == standardize_time_to_ns(timestamp, time_ns)
         IN  IF r.ok THEN Ok(Finite(r.v)) ELSE r

\* str < str: lexicographic on code points
RECURSIVE text_less(_, _)
text_less(a, b) ==
    IF b = <<>> THEN FALSE
    ELSE IF a = <<>> THEN TRUE
    ELSE IF a[1] # b[1] THEN a[1] < b[1]
    ELSE text_less(Tail(a), Tail(b))

\* (timestamp, path) < (timestamp, path)
tuple_less(a, b) == a[1] < b[1] \/ (a[1] = b[1] /\ text_less(a[2], b[2]))

\* variant: reverse orders the timestamps only, equal timestamps stay in
\* ascending path order
RECURSIVE sorted_by_time_only(_, _)
sorted_by_time_only(tuples, reverse) ==
    IF tuples = {} THEN <<>>
    ELSE LET first == CHOOSE a \in tuples : \A b \in tuples \ {a} :
                          IF reverse
                          THEN b[1] < a[1] \/ (a[1] = b[1] /\ text_less(a[2], b[2]))
                          ELSE tuple_less(a, b)
         IN  <<first>> \o sorted_by_time_only(tuples \ {first}, reverse)

\* sorted(tuples, reverse=reverse) of distinct tuples
RECURSIVE sorted(_, _)
sorted(tuples, reverse) ==
    IF tuples = {} THEN <<>>
    ELSE LET first == CHOOSE a \in tuples : \A b \in tuples \ {a} :
                          IF reverse THEN tuple_less(b, a) ELSE tuple_less(a, b)
         IN  <<first>> \o sorted(tuples \ {first}, reverse)

\* variant: a record whose egress fails is passed over
RECURSIVE yield_blobs_skipping(_, _, _)
yield_blobs_skipping(cfg, dir, time_path_tuples) ==
    IF time_path_tuples = <<>> THEN [out |-> <<>>, err |-> "None"]
    ELSE LET timestamp_ns == time_path_tuples[1][1]
             path == time_path_tuples[1][2]
             blob == egress_blob(cfg, dir[path].bytes)
             rest == yield_blobs_skipping(cfg, dir, Tail(time_path_tuples))
         IN  IF ~blob.ok THEN rest
             ELSE [out |-> <<[timestamp |-> timestamp_ns * HalfNsPerNs,
                              blob |-> blob.v, path |-> path]>> \o rest.out,
                   err |-> rest.err]

\* the loop that yields: the Blobs before the first egress failure, and that
\* failure.  A Blob is (timestamp in seconds, payload); path is the name the
\* log line of the yield carries.
RECURSIVE yield_blobs(_, _, _)
yield_blobs(cfg, dir, time_path_tuples) ==
    IF time_path_tuples = <<>> THEN [out |-> <<>>, err |-> "None"]
    ELSE LET timestamp_ns == time_path_tuples[1][1]
             path == time_path_tuples[1][2]
             blob == egress_blob(cfg, dir[path].bytes)
         IN  IF ~blob.ok THEN [out |-> <<>>, err |-> blob.v]
             ELSE LET rest == yield_blobs(cfg, dir, Tail(time_path_tuples))
                  IN  [out |-> <<[timestamp |-> timestamp_ns * HalfNsPerNs,
                                  blob |-> blob.v, path |-> path]>> \o rest.out,
                       err |-> rest.err]

\* Store.getblobs from the normalized bounds on: order, listing, decoding,
\* filter, sort, yield
getblobs_query(cfg, dir, start_time_ns, end_time_ns) ==
    LET ascending == bound_leq(start_time_ns, end_time_ns)
        lo == IF ascending THEN start_time_ns ELSE end_time_ns
        hi == IF ascending THEN end_time_ns ELSE start_time_ns
        listed(decoded) ==
            LET failing == {path \in DOMAIN dir : ~decoded[path].ok}
                in_range == {<<decoded[path].v, path>> : path \in
                                {q \in DOMAIN dir : /\ bound_leq(lo, Finite(decoded[q].v))
                                                    /\ bound_leq(Finite(decoded[q].v), hi)}}
            IN  IF failing # {}
                THEN [out |-> <<>>, err |-> decoded[CHOOSE path \in failing : TRUE].v]
                ELSE yield_blobs(cfg, dir, sorted(in_range, ~ascending))
    IN  listed([path \in DOMAIN dir |-> decode_name(path)])

\* Store.getblobs on a directory, with no pull: what it yields and raises
getblobs(cfg, dir, start_time, end_time) ==
    LET normalized(start_time_ns, end_time_ns) ==
            IF ~start_time_ns.ok THEN [out |-> <<>>, err |-> start_time_ns.v]
            ELSE IF ~end_time_ns.ok THEN [out |-> <<>>, err |-> end_time_ns.v]
            ELSE getblobs_query(cfg, dir, start_time_ns.v, end_time_ns.v)
    IN  normalized(getblobs_standardize(start_time, NegInf, 0),
                   getblobs_standardize(end_time, PosInf, 0))

(***************************************************************************)
(* Inputs of the model.                                                    *)
(***************************************************************************)
Nonces == 0..max_int(NUM_RANDOM_BITS)

Payloads == {<<7, 7, 9>>}

\* what a caller passes as a blob: bytes, or a value of another type
Bytes(data) == [isbytes |-> TRUE, data |-> data]
NotBytes == [isbytes |-> FALSE, data |-> <<>>]
BlobInputs == {Bytes(data) : data \in Payloads} \cup {NotBytes}

\* Fernet keys a Store is built with (0: no key) and the IVs Fernet draws
Keys == {0, 17}
IVs == {1}

\* the readings of time.time_ns()
Clock == {70}

WriteTimes ==
    {Time("None", 0), Time("num", 0), Time("num", -140), Time("num", 3), Time("str", 4),
     Time("struct", 0), Time("nan", 0), Time("inf", 0), Time("-inf", 0), Time("badstr", 0),
     Time("other", 0)}

QueryTimes ==
    {Time("None", 0), Time("nan", 0), Time("-inf", 0), Time("inf", 0), Time("num", 0),
     Time("str", 0), Time("num", 3), Time("badstr", 0)}

\* results of remote.push()[0].flags, or the push raising GitCommandError
PushResults == {"GitCommandError", "FAST_FORWARD", "NEW_HEAD", "UP_TO_DATE", "REJECTED"}
\* results of remote.pull()[0].flags, or the pull raising GitCommandError
PullResults == {"GitCommandError", "HEAD_UPTODATE", "FAST_FORWARD", "REJECTED"}
\* output of git push --set-upstream: the expected message or anything else,
\* or the command failing with GitCommandError
SetUpstreamOutputs == {"expected_msg", "other", "GitCommandError"}

\* records other replicas have pushed: one written by a newer package
ForeignRecords ==
    {[timestamp_ns |-> 2, random |-> 0, version |-> FILE_VERSION + 1, blob |-> <<>>]}

(***************************************************************************)
(* State.                                                                  *)
(***************************************************************************)
VARIABLES
    repo,    \* the health of the repository the path names
    store,   \* the Store instance: live, and its configuration
    files,   \* the directory: name -> bytes (and what was stored, for reference)
    index,   \* the git index: name -> bytes
    head,    \* the tree of the HEAD commit: name -> bytes
    pc,      \* where the running call is: idle, loop, commit, set_upstream, pull, push2, done
    call,    \* the running call and its locals
    trace,   \* what the running call has done so far, in order
    err,     \* the exception the call ended with, "None" if none
    out,     \* the Blobs getblobs yielded
    pre      \* files, index and head when the call began

vars == <<repo, store, files, index, head, pc, call, trace, err, out, pre>>

NoFiles == [n \in {} |-> 0]
NoCall == [op |-> "none", num_added |-> 0, path |-> <<>>, blob_original |-> <<>>,
           timestamp |-> Time("None", 0), timestamp_ns |-> 0, timestamps_none |-> FALSE,
           start_time |-> Time("None", 0), end_time |-> Time("None", 0), pull |-> FALSE]
NoStore == [live |-> FALSE, cfg |-> Config(FALSE, 0)]
NoPre == [files |-> NoFiles, index |-> NoFiles, head |-> NoFiles, store |-> NoStore]
Snapshot == [files |-> files, index |-> index, head |-> head, store |-> store]

\* an entry of trace: what was done, to which file, and what git answered
Event(op, path) == [op |-> op, path |-> path, result |-> ""]
GitEvent(op, result) == [op |-> op, path |-> <<>>, result |-> result]

\* variant: a name that exists is left as it is
Put_if_absent(f, name, value) ==
    [n \in DOMAIN f \cup {name} |-> IF n \in DOMAIN f THEN f[n] ELSE value]

Put(f, name, value) == [n \in DOMAIN f \cup {name} |-> IF n = name THEN value ELSE f[n]]

\* a file: its bytes, and for reference the timestamp, payload and version
\* its writer stored
File(bytes, timestamp_ns, blob, version) ==
    [bytes |-> bytes, timestamp_ns |-> timestamp_ns, blob |-> blob, version |-> version]

Init ==
    /\ repo \in [bare : BOOLEAN, modified : BOOLEAN, untracked : BOOLEAN,
                 remotes : BOOLEAN, remote_exists : BOOLEAN]
    /\ repo.remote_exists => repo.remotes
    /\ store = NoStore
    /\ files = NoFiles
    /\ index = NoFiles
    /\ head = NoFiles
    /\ pc = "idle"
    /\ call = NoCall
    /\ trace = <<>>
    /\ err = "None"
    /\ out = <<>>
    /\ pre = NoPre

(***************************************************************************)
(* Store.__init__ and _check_repo                                          *)
(***************************************************************************)
\* repo.is_dirty(): the index differs from HEAD or a tracked file is modified
is_dirty == repo.modified \/ index # head

\* repo.untracked_files is not empty
has_untracked_files == repo.untracked \/ DOMAIN files \ DOMAIN index # {}

\* variant: the dirty check ahead of the bare check
check_repo_dirty_first ==
    IF is_dirty THEN "RepoDirty"
    ELSE IF repo.bare THEN "RepoBare"
    ELSE IF has_untracked_files THEN "RepoHasUntrackedFiles"
    ELSE IF ~repo.remotes THEN "RepoRemoteNotAdded"
    ELSE IF ~repo.remote_exists THEN "RepoRemoteNotExist"
    ELSE "None"

\* Store._check_repo: the exception it raises, "None" if it returns
check_repo ==
    IF repo.bare THEN "RepoBare"
    ELSE IF is_dirty THEN "RepoDirty"
    ELSE IF has_untracked_files THEN "RepoHasUntrackedFiles"
    ELSE IF ~repo.remotes THEN "RepoRemoteNotAdded"
    ELSE IF ~repo.remote_exists THEN "RepoRemoteNotExist"
    ELSE "None"

\* Store(path, compression=..., key=...).  The configuration of a repository
\* is not changed once established (a documented contract of the class).
Construct ==
    /\ pc = "idle"
    /\ \E compression \in BOOLEAN, key \in Keys :
        /\ store.live => store.cfg = Config(compression, key)
        /\ store' = IF check_repo = "None"
                    THEN [live |-> TRUE, cfg |-> Config(compression, key)]
                    ELSE store
    /\ call' = [NoCall EXCEPT !.op = "construct"]
    /\ err' = check_repo
    /\ pc' = "done"
    /\ pre' = Snapshot
    /\ UNCHANGED <<repo, files, index, head, trace, out>>

(***************************************************************************)
(* Store._addblob                                                          *)
(***************************************************************************)
\* _addblob up to the write: the exception raised ("None" if none), and the
\* path, timestamp and bytes it computed
prepare_blob(blob, timestamp, random, iv, time_ns) ==
    LET none == [err |-> "None", path |-> <<>>, timestamp_ns |-> 0, bytes |-> <<>>]
        decoded(timestamp_ns, path, decoded_timestamp_ns) ==
            IF ~decoded_timestamp_ns.ok
            THEN [none EXCEPT !.err = decoded_timestamp_ns.v, !.path = path,
                              !.timestamp_ns = timestamp_ns]
            ELSE IF timestamp_ns # decoded_timestamp_ns.v
            THEN [none EXCEPT !.err = "AssertionError:name", !.path = path,
                              !.timestamp_ns = timestamp_ns]
            ELSE [none EXCEPT !.path = path, !.timestamp_ns = timestamp_ns,
                              !.bytes = ingress_blob(store.cfg, iv, blob.data)]
        encoded(timestamp_ns, path) == decoded(timestamp_ns, path, decode_name(path))
        standardized(timestamp_ns) ==
            IF ~timestamp_ns.ok THEN [none EXCEPT !.err = timestamp_ns.v]
            ELSE encoded(timestamp_ns.v, encode_name(timestamp_ns.v, random))
    IN  IF ~blob.isbytes THEN [none EXCEPT !.err = "BlobTypeInvalid"]
        ELSE standardized(standardize_time_to_ns(timestamp, time_ns))

\* assert blob_original == self._egress_blob(path.read_bytes())
read_back(bytes, blob_original) ==
    LET blob == egress_blob(store.cfg, bytes)
    IN  IF ~blob.ok THEN blob.v
        ELSE IF blob.v # blob_original THEN "AssertionError:read_back"
        ELSE "None"

\* Store.addblob: _addblob(push=True) as far as the call of
\* _commit_and_push_repo
AddBlob ==
    /\ pc = "idle"
    /\ store.live
    /\ Cardinality(DOMAIN files) < MaxFiles
    /\ \E blob \in BlobInputs, timestamp \in WriteTimes, random \in Nonces, iv \in IVs,
          time_ns \in Clock :
       \E p \in {prepare_blob(blob, timestamp, random, iv, time_ns)} :
        /\ pre' = Snapshot
        /\ call' = [NoCall EXCEPT !.op = "addblob", !.path = p.path,
                                  !.timestamp = timestamp,
                                  !.timestamp_ns = p.timestamp_ns,
                                  !.blob_original = blob.data]
        /\ IF p.err # "None"
           THEN /\ err' = p.err
                /\ pc' = "done"
                /\ UNCHANGED <<files, index, trace>>
           ELSE /\ files' = Put(files, p.path, File(p.bytes, p.timestamp_ns, blob.data, FILE_VERSION))
                /\ index' = Put(index, p.path, p.bytes)
                /\ trace' = <<Event("write", p.path), Event("stage", p.path)>>
                /\ err' = "None"
                /\ pc' = "commit"
        /\ UNCHANGED <<repo, store, head, out>>

(***************************************************************************)
(* Store.addblobs                                                          *)
(***************************************************************************)
\* the call, up to the loop; timestamps is None or an iterable
AddBlobsBegin ==
    /\ pc = "idle"
    /\ store.live
    /\ pre' = Snapshot
    /\ \E timestamps_none \in BOOLEAN :
          call' = [NoCall EXCEPT !.op = "addblobs", !.timestamps_none = timestamps_none]
    /\ pc' = "loop"
    /\ UNCHANGED <<repo, store, files, index, head, trace, err, out>>

\* one pair of zip(blobs, timestamps): _addblob(push=False)
AddBlobsPair ==
    /\ pc = "loop"
    /\ call.num_added < MaxBatch
    /\ Cardinality(DOMAIN files) < MaxFiles
    /\ \E blob \in BlobInputs, random \in Nonces, iv \in IVs, time_ns \in Clock,
          timestamp \in IF call.timestamps_none THEN {Time("None", 0)} ELSE WriteTimes :
       \E p \in {prepare_blob(blob, timestamp, random, iv, time_ns)} :
       \E checked \in {IF p.err = "None" THEN read_back(p.bytes, blob.data) ELSE "None"} :
        /\ IF p.err # "None"
           THEN /\ err' = p.err
                /\ pc' = "done"
                /\ call' = [call EXCEPT !.path = p.path, !.timestamp = timestamp,
                                        !.timestamp_ns = p.timestamp_ns,
                                        !.blob_original = blob.data]
                /\ UNCHANGED <<files, index, trace>>
           ELSE /\ files' = Put(files, p.path, File(p.bytes, p.timestamp_ns, blob.data, FILE_VERSION))
                /\ index' = Put(index, p.path, p.bytes)
                /\ trace' = trace \o <<Event("write", p.path), Event("stage", p.path),
                                       Event("verify", p.path)>>
                /\ err' = checked
                /\ pc' = IF checked = "None" THEN "loop" ELSE "done"
                /\ call' = [call EXCEPT !.path = p.path, !.timestamp = timestamp,
                                        !.timestamp_ns = p.timestamp_ns,
                                        !.blob_original = blob.data,
                                        !.num_added = IF checked = "None" THEN @ + 1 ELSE @]
        /\ UNCHANGED <<repo, store, head, out, pre>>

\* variant: commit and push whether or not anything was added
AddBlobsEnd_unconditional ==
    /\ pc = "loop"
    /\ pc' = "commit"
    /\ UNCHANGED <<repo, store, files, index, head, call, trace, err, out, pre>>

\* zip is exhausted: commit and push if anything was added
AddBlobsEnd ==
    /\ pc = "loop"
    /\ pc' = IF call.num_added > 0 THEN "commit" ELSE "done"
    /\ UNCHANGED <<repo, store, files, index, head, call, trace, err, out, pre>>

(***************************************************************************)
(* Store._pull_repo and Store._commit_and_push_repo                        *)
(***************************************************************************)
Merge(f, g) == [n \in DOMAIN f \cup DOMAIN g |-> IF n \in DOMAIN g THEN g[n] ELSE f[n]]

\* the files of the records a pull brings, written under this configuration
incoming_files(records) ==
    LET name(r) == encode_name_version(r.timestamp_ns, r.random, r.version)
    IN  [n \in {name(r) : r \in records} |->
            LET r == CHOOSE r \in records : name(r) = n
            IN  File(ingress_blob(store.cfg, 0, r.blob), r.timestamp_ns, r.blob, r.version)]

bytes_of(f) == [n \in DOMAIN f |-> f[n].bytes]

\* variant: every pull result is taken as pulled
is_pulled_any(flags) == flags = flags

\* _is_pulled
is_pulled(flags) == flags \in {"HEAD_UPTODATE", "FAST_FORWARD"}

\* variant: UP_TO_DATE is accepted as well
is_pushed_or_up_to_date(flags) == flags \in {"FAST_FORWARD", "NEW_HEAD", "UP_TO_DATE"}

\* _is_pushed: UP_TO_DATE is intentionally not accepted
is_pushed(flags) == flags \in {"FAST_FORWARD", "NEW_HEAD"}

\* the working copy as it is
not_pulled == [err |-> "None", files |-> files, index |-> index, head |-> head]

\* Store._pull_repo: the exception raised and the working copy afterwards.
\* A GitCommandError is caught and logged.
pull_repo(result, records) ==
    LET same == not_pulled
        merged(incoming) ==
            [err |-> "None",
             files |-> Merge(files, incoming),
             index |-> Merge(index, bytes_of(incoming)),
             head |-> Merge(head, bytes_of(incoming))]
    IN  IF result = "GitCommandError" THEN same
        ELSE IF ~is_pulled(result) THEN [same EXCEPT !.err = "RepoPullError"]
        ELSE merged(incoming_files(records))

\* what a pull with this result can bring
Incoming(result) ==
    IF result = "FAST_FORWARD" THEN SUBSET ForeignRecords \ {{}} ELSE {{}}

\* _commit_and_push_repo has returned: addblobs is done, _addblob(push=True)
\* goes on to its read-back assertion
after_push(events) ==
    IF call.op = "addblob"
    THEN [trace |-> events \o <<Event("verify", call.path)>>,
          err |-> read_back(files[call.path].bytes, call.blob_original)]
    ELSE [trace |-> events, err |-> "None"]

\* _commit_and_push_repo: the commit and the first push
CommitAndPush ==
    /\ pc = "commit"
    /\ \E result \in PushResults :
       \E events \in {trace \o <<Event("commit", <<>>), GitEvent("push", result)>>} :
       \E after \in {IF is_pushed(result) THEN after_push(events)
                      ELSE [trace |-> events, err |-> "None"]} :
        /\ head' = index
        /\ IF result = "GitCommandError"
           THEN /\ pc' = "set_upstream"
                /\ trace' = events
                /\ err' = "None"
           ELSE IF is_pushed(result)
           THEN /\ pc' = "done"
                /\ trace' = after.trace
                /\ err' = after.err
           ELSE /\ pc' = "pull"
                /\ trace' = events
                /\ err' = "None"
        /\ UNCHANGED <<repo, store, files, index, call, out, pre>>

\* variant: whatever the command prints is taken for success
SetUpstream_any_output ==
    /\ pc = "set_upstream"
    /\ \E push_output \in SetUpstreamOutputs :
       \E events \in {trace \o <<GitEvent("push_set_upstream", push_output)>>} :
       \E after \in {after_push(events)} :
        /\ pc' = "done"
        /\ IF push_output = "GitCommandError"
           THEN /\ trace' = events
                /\ err' = "GitCommandError"
           ELSE /\ trace' = after.trace
                /\ err' = after.err
        /\ UNCHANGED <<repo, store, files, index, head, call, out, pre>>

\* the first push raised: repo.git.push('--set-upstream', ...)
SetUpstream ==
    /\ pc = "set_upstream"
    /\ \E push_output \in SetUpstreamOutputs :
       \E events \in {trace \o <<GitEvent("push_set_upstream", push_output)>>} :
       \E after \in {after_push(events)} :
        /\ pc' = "done"
        /\ IF push_output = "GitCommandError"
           THEN /\ trace' = events
                /\ err' = "GitCommandError"
           ELSE IF push_output # "expected_msg"
           THEN /\ trace' = events
                /\ err' = "RepoPushError"
           ELSE /\ trace' = after.trace
                /\ err' = after.err
        /\ UNCHANGED <<repo, store, files, index, head, call, out, pre>>

\* the first push was not accepted: self._pull_repo()
Pull ==
    /\ pc = "pull"
    /\ \E result \in PullResults :
       \E records \in Incoming(result) :
       \E pulled \in {pull_repo(result, records)} :
        /\ trace' = trace \o <<GitEvent("pull", result)>>
        /\ err' = pulled.err
        /\ pc' = IF pulled.err = "None" THEN "push2" ELSE "done"
        /\ files' = pulled.files
        /\ index' = pulled.index
        /\ head' = pulled.head
        /\ UNCHANGED <<repo, store, call, out, pre>>

\* the push after the pull; a GitCommandError of it is not caught
Push2 ==
    /\ pc = "push2"
    /\ \E result \in PushResults :
       \E events \in {trace \o <<GitEvent("push", result)>>} :
       \E after \in {after_push(events)} :
        /\ pc' = "done"
        /\ IF result = "GitCommandError"
           THEN /\ trace' = events
                /\ err' = "GitCommandError"
           ELSE IF is_pushed(result)
           THEN /\ trace' = after.trace
                /\ err' = after.err
           ELSE /\ trace' = events
                /\ err' = "RepoPushError"
        /\ UNCHANGED <<repo, store, files, index, head, call, out, pre>>

(***************************************************************************)
(* Store.getblobs, iterated to its end by the caller                       *)
(***************************************************************************)
\* variant: the pull comes before the bounds are normalized
GetBlobs_pull_first ==
    /\ pc = "idle"
    /\ store.live
    /\ \E start_time \in QueryTimes, end_time \in QueryTimes, pull \in BOOLEAN :
       \E result \in IF pull THEN PullResults ELSE {""} :
       \E records \in IF pull THEN Incoming(result) ELSE {{}} :
       \E start_time_ns \in {getblobs_standardize(start_time, NegInf, 0)} :
       \E end_time_ns \in {getblobs_standardize(end_time, PosInf, 0)} :
       \E pulled \in {IF pull THEN pull_repo(result, records) ELSE not_pulled} :
       \E query \in {IF start_time_ns.ok /\ end_time_ns.ok /\ pulled.err = "None"
                     THEN getblobs(store.cfg, pulled.files, start_time, end_time)
                     ELSE [out |-> <<>>, err |-> "None"]} :
        /\ pre' = Snapshot
        /\ call' = [NoCall EXCEPT !.op = "getblobs", !.start_time = start_time,
                                  !.end_time = end_time, !.pull = pull]
        /\ pc' = "done"
        /\ trace' = IF pull THEN <<GitEvent("pull", result)>> ELSE <<>>
        /\ files' = pulled.files
        /\ index' = pulled.index
        /\ head' = pulled.head
        /\ IF pulled.err # "None"
           THEN /\ err' = pulled.err
                /\ out' = <<>>
           ELSE IF ~start_time_ns.ok
           THEN /\ err' = start_time_ns.v
                /\ out' = <<>>
           ELSE IF ~end_time_ns.ok
           THEN /\ err' = end_time_ns.v
                /\ out' = <<>>
           ELSE /\ err' = query.err
                /\ out' = query.out
        /\ UNCHANGED <<repo, store>>

GetBlobs ==
    /\ pc = "idle"
    /\ store.live
    /\ \E start_time \in QueryTimes, end_time \in QueryTimes, pull \in BOOLEAN :
       \E result \in IF pull THEN PullResults ELSE {""} :
       \E records \in IF pull THEN Incoming(result) ELSE {{}} :
       \E start_time_ns \in {getblobs_standardize(start_time, NegInf, 0)} :
       \E end_time_ns \in {getblobs_standardize(end_time, PosInf, 0)} :
       \E pulled \in {IF pull THEN pull_repo(result, records) ELSE not_pulled} :
       \E query \in {IF start_time_ns.ok /\ end_time_ns.ok /\ pulled.err = "None"
                     THEN getblobs(store.cfg, pulled.files, start_time, end_time)
                     ELSE [out |-> <<>>, err |-> "None"]} :
        /\ pre' = Snapshot
        /\ call' = [NoCall EXCEPT !.op = "getblobs", !.start_time = start_time,
                                  !.end_time = end_time, !.pull = pull]
        /\ pc' = "done"
        /\ IF ~start_time_ns.ok
           THEN /\ err' = start_time_ns.v
                /\ UNCHANGED <<files, index, head, trace, out>>
           ELSE IF ~end_time_ns.ok
           THEN /\ err' = end_time_ns.v
                /\ UNCHANGED <<files, index, head, trace, out>>
           ELSE /\ trace' = IF pull THEN <<GitEvent("pull", result)>> ELSE <<>>
                /\ files' = pulled.files
                /\ index' = pulled.index
                /\ head' = pulled.head
                /\ IF pulled.err # "None"
                   THEN /\ err' = pulled.err
                        /\ out' = <<>>
                   ELSE /\ err' = query.err
                        /\ out' = query.out
        /\ UNCHANGED <<repo, store>>

\* the caller has its result; the next call starts afresh
Return ==
    /\ pc = "done"
    /\ pc' = "idle"
    /\ call' = NoCall
    /\ trace' = <<>>
    /\ err' = "None"
    /\ out' = <<>>
    /\ pre' = NoPre
    /\ UNCHANGED <<repo, store, files, index, head>>

Next ==
    \/ Construct
    \/ AddBlob
    \/ AddBlobsBegin
    \/ AddBlobsPair
    \/ AddBlobsEnd
    \/ CommitAndPush
    \/ SetUpstream
    \/ Pull
    \/ Push2
    \/ GetBlobs
    \/ Return

Spec == Init /\ [][Next]_vars

(***************************************************************************)
(* The pure part of _addblob on its own: a name is made for a timestamp    *)
(* and a nonce, decoded again, and the blob goes through the pipeline and  *)
(* back.  Inputs range wider than the store above affords.                 *)
(***************************************************************************)
CodecPayloads == {<<>>, <<0>>, <<7, 7, 9>>, <<255, 255>>, <<1, 0, 0, 0, 0>>}
CodecIVs == {0, 1, 200}

\* seconds around the epoch, and at the boundaries where the merged integer
\* needs two and three bytes
CodecSeconds ==
    (-270..270) \cup {-65538, -65537, -65536, -32770, -32769, -32768, -32767, -16384, -16383,
                      16382, 16383, 16384, 32766, 32767, 32768, 65535, 65536}

CodecInit ==
    /\ repo = [bare |-> FALSE, modified |-> FALSE, untracked |-> FALSE,
               remotes |-> TRUE, remote_exists |-> TRUE]
    /\ store \in {[live |-> TRUE, cfg |-> Config(compression, key)] :
                    compression \in BOOLEAN, key \in Keys}
    /\ files = NoFiles
    /\ index = NoFiles
    /\ head = NoFiles
    /\ pc = "codec"
    /\ call = NoCall
    /\ trace = <<>>
    /\ err = "None"
    /\ out = <<>>
    /\ pre = NoPre

\* _addblob without the repository: the path and bytes it would write, and
\* what reading them back gives
Prepare ==
    /\ pc = "codec"
    /\ \E data \in CodecPayloads, seconds \in CodecSeconds, random \in Nonces, iv \in CodecIVs :
       \E blob \in {Bytes(data)} :
       \E p \in {prepare_blob(blob, Time("num", seconds), random, iv, 0)} :
        /\ call' = [NoCall EXCEPT !.op = "prepare", !.path = p.path,
                                  !.timestamp_ns = p.timestamp_ns,
                                  !.blob_original = blob.data]
        /\ err' = p.err
        /\ out' = IF p.err = "None"
                  THEN <<[bytes |-> p.bytes, iv |-> iv, random |-> random,
                          read_back |-> read_back(p.bytes, blob.data)]>>
                  ELSE <<>>
    /\ pc' = "prepared"
    /\ UNCHANGED <<repo, store, files, index, head, trace, pre>>

CodecNext == Prepare

SpecCodec == CodecInit /\ [][CodecNext]_vars

(***************************************************************************)
(* The utilities on their own, as their unit tests drive them.             *)
(***************************************************************************)
\* widths of the second integer, and the range of the first
MaxWidth == 5
MaxInt1 == 40

UtilInit ==
    /\ repo = [bare |-> FALSE, modified |-> FALSE, untracked |-> FALSE,
               remotes |-> TRUE, remote_exists |-> TRUE]
    /\ store = NoStore
    /\ files = NoFiles
    /\ index = NoFiles
    /\ head = NoFiles
    /\ pc = "util"
    /\ call = NoCall
    /\ trace = <<>>
    /\ err = "None"
    /\ out = <<>>
    /\ pre = NoPre

\* TestIntMerger.test_intmerger: merge two integers, split the result
MergeSplit ==
    /\ pc = "util"
    /\ \E num_bits_int2 \in 0..MaxWidth :
       \E int1 \in -MaxInt1..MaxInt1, int2 \in 0..max_int(num_bits_int2) :
       \E int12 \in {IntMerger_merge(num_bits_int2, int1, int2)} :
        /\ call' = [op |-> "merge_split", num_bits_int2 |-> num_bits_int2,
                    int1 |-> int1, int2 |-> int2]
        /\ out' = <<int12, IntMerger_split(num_bits_int2, int12)>>
    /\ pc' = "util_done"
    /\ UNCHANGED <<repo, store, files, index, head, trace, err, pre>>

\* bits of a fixed-width encoder (0: None, variable width) and the integers
\* encoded: around zero, and at the two- and three-byte boundaries
MaxBits == 9
MaxEncoded == 260
EncodedInts ==
    (-MaxEncoded..MaxEncoded)
        \cup {-8388607, -65537, -65536, -32769, -32768, 32767, 32768, 65535, 65536, 8388607}

\* TestIntBaseEncoder: encode an integer, decode the token
EncodeDecode ==
    /\ pc = "util"
    /\ \E encoding \in ENCODINGS, signed \in BOOLEAN, bits \in 0..MaxBits, i \in EncodedInts :
       \E encoded \in {IntBaseEncoder_encode(encoding, bits, signed, i)} :
        /\ call' = [op |-> "encode_decode", encoding |-> encoding, bits |-> bits,
                    signed |-> signed, i |-> i]
        /\ out' = <<encoded,
                    IF encoded.ok THEN IntBaseEncoder_decode(encoding, signed, encoded.v)
                    ELSE encoded>>
    /\ pc' = "util_done"
    /\ UNCHANGED <<repo, store, files, index, head, trace, err, pre>>

UtilNext ==
    \/ MergeSplit
    \/ EncodeDecode

SpecUtil == UtilInit /\ [][UtilNext]_vars

(***************************************************************************)
(* The directory of a Store on its own: records are written without a      *)
(* commit, files of other writers arrive in it, names are decoded and the  *)
(* directory is queried.  Files carry the nonce of their name as well.     *)
(***************************************************************************)
MaxDirRecords == 2
DirPayloads == {<<7, 7, 9>>, <<5>>}
DirTimes == {Time("num", -140), Time("num", 3)}
DirQueryTimes == {Time("-inf", 0), Time("inf", 0), Time("num", 0)}

DirFile(bytes, timestamp_ns, random, blob, version) ==
    [bytes |-> bytes, timestamp_ns |-> timestamp_ns, random |-> random, blob |-> blob,
     version |-> version]

\* the key of another writer
ForeignKey == 29

\* files that other writers push: one of a newer format version, one of this
\* version encrypted under another key, and two whose names are not record
\* names at all (version 0 marks them): "x.AQ==", and a stem with suffix ".x"
Arrivals ==
    {[name |-> encode_name_version(2, 0, FILE_VERSION + 1),
      file |-> DirFile(<<>>, 2, 0, <<>>, FILE_VERSION + 1)],
     [name |-> encode_name(0, 0),
      file |-> DirFile(fernet_encrypt(ForeignKey, 1, <<5>>), 0, 0, <<5>>, FILE_VERSION)],
     [name |-> <<120, DotChar, 65, 81, PadChar, PadChar>>,
      file |-> DirFile(<<>>, 0, 0, <<>>, 0)],
     [name |-> encode(merge(0, 0), TRUE).v \o <<DotChar, 120>>,
      file |-> DirFile(<<>>, 0, 0, <<>>, 0)]}

DirInit ==
    /\ repo = [bare |-> FALSE, modified |-> FALSE, untracked |-> FALSE,
               remotes |-> TRUE, remote_exists |-> TRUE]
    /\ store \in {[live |-> TRUE, cfg |-> Config(compression, key)] :
                      compression \in BOOLEAN, key \in Keys}
    /\ files = NoFiles
    /\ index = NoFiles
    /\ head = NoFiles
    /\ pc = "dir"
    /\ call = NoCall
    /\ trace = <<>>
    /\ err = "None"
    /\ out = <<>>
    /\ pre = NoPre

\* _addblob(push=False) with bytes and a finite timestamp: the file is
\* written, whether or not one of that name exists, and staged
Write ==
    /\ pc = "dir"
    /\ \E data \in DirPayloads, timestamp \in DirTimes, random \in Nonces, iv \in IVs :
       \E p \in {prepare_blob(Bytes(data), timestamp, random, iv, 0)} :
        /\ p.err = "None"
        /\ Cardinality({n \in DOMAIN files : files[n].version = FILE_VERSION}
                            \cup {p.path}) <= MaxDirRecords
        /\ pre' = Snapshot
        /\ call' = [op |-> "write", path |-> p.path, timestamp_ns |-> p.timestamp_ns,
                    random |-> random, blob_original |-> data]
        /\ files' = Put(files, p.path, DirFile(p.bytes, p.timestamp_ns, random, data,
                                                FILE_VERSION))
        /\ index' = Put(index, p.path, p.bytes)
        /\ err' = read_back(p.bytes, data)
    /\ UNCHANGED <<repo, store, head, pc, trace, out>>

\* a file of another writer comes into the directory, as a pull brings it
Arrive ==
    /\ pc = "dir"
    /\ \E a \in Arrivals :
        /\ a.name \notin DOMAIN files
        /\ files' = Put(files, a.name, a.file)
        /\ index' = Put(index, a.name, a.file.bytes)
        /\ head' = Put(head, a.name, a.file.bytes)
        /\ call' = [op |-> "arrive", path |-> a.name]
    /\ pre' = NoPre
    /\ err' = "None"
    /\ UNCHANGED <<repo, store, pc, trace, out>>

\* self._decode_name(path) of a file of the directory
DecodeName ==
    /\ pc = "dir"
    /\ \E path \in DOMAIN files :
        /\ call' = [op |-> "decode_name", path |-> path]
        /\ out' = <<decode_name(path)>>
    /\ pc' = "decoded"
    /\ err' = "None"
    /\ UNCHANGED <<repo, store, files, index, head, trace, pre>>

\* getblobs(start_time, end_time) without a pull, iterated to its end
Query ==
    /\ pc = "dir"
    /\ \E start_time \in DirQueryTimes, end_time \in DirQueryTimes :
       \E query \in {getblobs(store.cfg, files, start_time, end_time)} :
        /\ call' = [op |-> "query", start_time |-> start_time, end_time |-> end_time]
        /\ out' = query.out
        /\ err' = query.err
    /\ pc' = "queried"
    /\ UNCHANGED <<repo, store, files, index, head, trace, pre>>

DirNext ==
    \/ Write
    \/ Arrive
    \/ DecodeName
    \/ Query

SpecDir == DirInit /\ [][DirNext]_vars

(***************************************************************************)
(* Properties.                                                             *)
(***************************************************************************)
RECURSIVE Reverse(_)
Reverse(q) == IF q = <<>> THEN <<>> ELSE Reverse(Tail(q)) \o <<q[1]>>

\* positions of the trace at which one of these operations happened
At(ops) == {i \in 1..Len(trace) : trace[i].op \in ops}
Times(ops) == Cardinality(At(ops))

InWrite == call.op \in {"addblob", "addblobs"}

\* C1: in SpecCodec, for every canonical timestamp (negative, zero,
\* positive) and every nonce, the name _encode_name makes decodes back to
\* the timestamp, so the assertion of _addblob on the name does not fail.
C1_NameRoundTrip ==
    call.op = "prepare" =>
        /\ err = "None"
        /\ call.path # <<>>
        /\ decode_name(call.path).ok
        /\ decode_name(call.path).v = call.timestamp_ns
        /\ path_suffix(call.path) = <<DotChar>> \o file_suffix_encoded(FILE_VERSION)

\* a negative timestamp and a set nonce bit whose merge needs three bytes
C1_Witness ==
    /\ call.op = "prepare"
    /\ err = "None"
    /\ call.timestamp_ns = -16385
    /\ out[1].random = 1

\* C8: in SpecCodec, for each of the four configurations and every payload,
\* the ingress bytes are encrypt(compress(payload)) with an unconfigured
\* stage the identity, egress is decompress(decrypt(bytes)), and egress of
\* the ingress bytes is the payload.
C8_PipelineRoundTrip ==
    (call.op = "prepare" /\ err = "None") =>
        LET cfg == store.cfg
            payload == call.blob_original
            compressed == IF cfg.compression THEN compress(payload) ELSE payload
            encrypted == IF cfg.key # 0 THEN fernet_encrypt(cfg.key, out[1].iv, compressed)
                         ELSE compressed
            decrypted == IF cfg.key # 0 THEN fernet_decrypt(cfg.key, out[1].bytes)
                         ELSE Ok(out[1].bytes)
            decompressed == IF ~decrypted.ok THEN decrypted
                            ELSE IF cfg.compression THEN decompress(decrypted.v)
                            ELSE decrypted
        IN  /\ out[1].bytes = encrypted
            /\ decompressed.ok
            /\ decompressed.v = payload
            /\ egress_blob(cfg, out[1].bytes).ok
            /\ egress_blob(cfg, out[1].bytes).v = payload
            /\ out[1].read_back = "None"

\* both stages configured, a payload with a run
C8_Witness ==
    /\ call.op = "prepare"
    /\ store.cfg.compression
    /\ store.cfg.key # 0
    /\ call.blob_original = <<7, 7, 9>>
    /\ out[1].read_back = "None"
    /\ Len(out[1].bytes) = 6

\* the bounds of the running getblobs call as the code normalizes them
StartBound == getblobs_standardize(call.start_time, NegInf, 0)
EndBound == getblobs_standardize(call.end_time, PosInf, 0)

\* a getblobs call has ended, its bounds were normalized and its pull, if
\* any, did not raise
Queried ==
    /\ pc = "done"
    /\ call.op = "getblobs"
    /\ StartBound.ok
    /\ EndBound.ok
    /\ err # "RepoPullError"

\* the record files of this format version whose timestamp is in [lo, hi]
RecordsIn(lo, hi) ==
    {n \in DOMAIN files : /\ files[n].version <= FILE_VERSION
                          /\ bound_leq(lo, Finite(files[n].timestamp_ns))
                          /\ bound_leq(Finite(files[n].timestamp_ns), hi)}

Yielded == {out[i].path : i \in 1..Len(out)}

\* C2: a getblobs call with start <= end yields exactly one Blob, with the
\* payload and timestamp it was added with, for each record whose timestamp
\* is in [start, end], and no other, in non-decreasing timestamp order.
C2_RangeQuery ==
    (Queried /\ bound_leq(StartBound.v, EndBound.v)) =>
        /\ Yielded = RecordsIn(StartBound.v, EndBound.v)
        /\ Len(out) = Cardinality(Yielded)
        /\ \A i \in 1..Len(out) :
            /\ out[i].path \in DOMAIN files
            /\ out[i].blob = files[out[i].path].blob
            /\ out[i].timestamp = files[out[i].path].timestamp_ns * HalfNsPerNs
        /\ \A i \in 1..Len(out), j \in 1..Len(out) :
            i < j => out[i].timestamp <= out[j].timestamp

\* a record was added, a pull brought a file of a newer format version, and
\* the query over everything yields nothing but BlobVersionUnsupported
C2_Witness ==
    /\ Queried
    /\ call.start_time.kind = "-inf"
    /\ call.end_time.kind = "inf"
    /\ RecordsIn(NegInf, PosInf) # {}
    /\ out = <<>>
    /\ err = "BlobVersionUnsupported"

\* C3, as stated: for bounds a # b, getblobs(b, a) over the same files yields
\* the exact reverse of what getblobs(a, b) yielded.
C3_SwapReverses ==
    (Queried /\ call.start_time # call.end_time) =>
        getblobs(store.cfg, files, call.end_time, call.start_time).out = Reverse(out)

\* C3, amended: the same for bounds that are neither None nor NaN and whose
\* normalized values differ.
C3_SwapReversesNormalized ==
    (/\ Queried
     /\ call.start_time.kind \notin {"None", "nan"}
     /\ call.end_time.kind \notin {"None", "nan"}
     /\ StartBound.v # EndBound.v) =>
        LET swapped == getblobs(store.cfg, files, call.end_time, call.start_time)
        IN  /\ swapped.out = Reverse(out)
            /\ {swapped.out[i].path : i \in 1..Len(swapped.out)} = Yielded
            /\ swapped.err = err

\* a descending query that yielded two records of one timestamp
C3_Witness ==
    /\ Queried
    /\ call.start_time.kind = "inf"
    /\ call.end_time.kind = "num"
    /\ Len(out) = 2
    /\ out[1].timestamp = out[2].timestamp
    /\ out[1].path # out[2].path

\* C4: when the directory holds a file of a format version above
\* FILE_VERSION, getblobs does not end with BlobVersionUnsupported and yields
\* every record of this version in the requested range.
C4_UnsupportedVersionSkipped ==
    (Queried /\ \E n \in DOMAIN files : files[n].version > FILE_VERSION) =>
        /\ err # "BlobVersionUnsupported"
        /\ Yielded = IF bound_leq(StartBound.v, EndBound.v)
                     THEN RecordsIn(StartBound.v, EndBound.v)
                     ELSE RecordsIn(EndBound.v, StartBound.v)

\* the only file is of a newer version and the query ends with the error
C4_Witness ==
    /\ Queried
    /\ DOMAIN files # {}
    /\ \A n \in DOMAIN files : files[n].version > FILE_VERSION
    /\ err = "BlobVersionUnsupported"

\* the result of the n-th event of the trace among these operations
NthResult(ops, n) ==
    LET i == CHOOSE i \in At(ops) : Cardinality({j \in At(ops) : j < i}) = n - 1
    IN  trace[i].result

\* a push that returned a result which is not accepted
Unaccepted(result) == result \in {"UP_TO_DATE", "REJECTED"}

FirstPushUnaccepted ==
    /\ InWrite
    /\ pc = "done"
    /\ Times({"push"}) >= 1
    /\ Unaccepted(NthResult({"push"}, 1))

PushedAtMostTwicePulledAtMostOnce ==
    InWrite => /\ Times({"push", "push_set_upstream"}) <= 2
               /\ Times({"pull"}) <= 1

\* C5, as stated: after a first push that is not accepted there is exactly
\* one pull and then exactly one further push, RepoPushError if that one is
\* not accepted either; never more than two pushes or one pull.
C5_PullThenOnePush ==
    /\ PushedAtMostTwicePulledAtMostOnce
    /\ FirstPushUnaccepted =>
        /\ Times({"pull"}) = 1
        /\ Times({"push"}) = 2
        /\ Unaccepted(NthResult({"push"}, 2)) => err = "RepoPushError"

\* C5, amended: the one pull may itself end the call with RepoPullError, and
\* then there is no further push.
C5_PullThenOnePushUnlessPullFails ==
    /\ PushedAtMostTwicePulledAtMostOnce
    /\ FirstPushUnaccepted =>
        /\ Times({"pull"}) = 1
        /\ Times({"push_set_upstream"}) = 0
        /\ IF NthResult({"pull"}, 1) \in {"GitCommandError", "HEAD_UPTODATE", "FAST_FORWARD"}
           THEN /\ Times({"push"}) = 2
                /\ Unaccepted(NthResult({"push"}, 2)) => err = "RepoPushError"
                /\ NthResult({"push"}, 2) = "GitCommandError" => err = "GitCommandError"
           ELSE /\ Times({"push"}) = 1
                /\ err = "RepoPullError"

\* first push rejected, pull, second push rejected
C5_Witness ==
    /\ FirstPushUnaccepted
    /\ Times({"pull"}) = 1
    /\ Times({"push"}) = 2
    /\ Unaccepted(NthResult({"push"}, 2))
    /\ err = "RepoPushError"

Publishing == {"commit", "push", "push_set_upstream", "pull"}

\* C6: in an addblobs call nothing is committed, pushed or pulled until the
\* last pair is written and staged; a call that got through k >= 1 pairs
\* commits exactly once; a call of zero pairs commits and pushes nothing.
C6_BatchedCommit ==
    call.op = "addblobs" =>
        /\ Times({"commit"}) <= 1
        /\ Times({"stage"}) = Times({"write"})
        /\ \A i \in At(Publishing) :
            /\ call.num_added >= 1
            /\ Cardinality({j \in At({"stage"}) : j < i}) = call.num_added
            /\ \A j \in At({"write", "stage"}) : j < i
            /\ \A j \in At({"commit"}) : j <= i
        /\ (/\ pc = "done"
            /\ call.num_added >= 1
            /\ err \in {"None", "RepoPushError", "RepoPullError", "GitCommandError"}) =>
                Times({"commit"}) = 1
        /\ call.num_added = 0 => Times(Publishing) = 0

\* two pairs, one commit, pushed
C6_Witness ==
    /\ call.op = "addblobs"
    /\ pc = "done"
    /\ err = "None"
    /\ call.num_added = 2
    /\ Times({"commit"}) = 1
    /\ Times({"write"}) = 2

\* C7: every commit and push of a write call comes after the read-back check
\* of each file the call wrote before it, and nothing is committed once a
\* read-back check has failed.
C7_VerifyBeforePublish ==
    InWrite =>
        \A i \in At({"commit", "push", "push_set_upstream"}) :
            \A j \in At({"write"}) :
                j < i => \E k \in At({"verify"}) :
                            j < k /\ k < i /\ trace[k].path = trace[j].path

\* addblob has committed and pushed, and verified afterwards
C7_Witness ==
    /\ call.op = "addblob"
    /\ pc = "done"
    /\ err = "None"
    /\ Times({"commit"}) = 1
    /\ Times({"verify"}) = 1
    /\ \A i \in At({"commit", "push"}), k \in At({"verify"}) : i < k

TimeErrors == {"TimeInvalid", "TimeUnhandledType"}

\* C9: a write call that ended with TimeInvalid or TimeUnhandledType left
\* the files, the index and the history as they were before the call.
C9_NoPartialEffect ==
    (InWrite /\ pc = "done" /\ err \in TimeErrors) =>
        /\ files = pre.files
        /\ index = pre.index
        /\ head = pre.head

\* addblobs failed at its second pair; the file of the first is there, staged
C9_Witness ==
    /\ call.op = "addblobs"
    /\ pc = "done"
    /\ err \in TimeErrors
    /\ call.num_added = 1
    /\ DOMAIN files # DOMAIN pre.files
    /\ index # head

\* C10: construction raises the error of the first failing check in the order
\* bare, dirty, untracked files, no remote, remote does not exist; it
\* yields a Store only when every check passes.
C10_FailFastConstruction ==
    /\ (pc = "done" /\ call.op = "construct") =>
        LET dirty == repo.modified \/ index # head
            untracked == repo.untracked \/ \E n \in DOMAIN files : n \notin DOMAIN index
            expected == CASE repo.bare -> "RepoBare"
                          [] ~repo.bare /\ dirty -> "RepoDirty"
                          [] ~repo.bare /\ ~dirty /\ untracked -> "RepoHasUntrackedFiles"
                          [] ~repo.bare /\ ~dirty /\ ~untracked /\ ~repo.remotes ->
                                "RepoRemoteNotAdded"
                          [] ~repo.bare /\ ~dirty /\ ~untracked /\ repo.remotes
                             /\ ~repo.remote_exists -> "RepoRemoteNotExist"
                          [] OTHER -> "None"
        IN  /\ err = expected
            /\ err = "None" => store.live
            /\ err # "None" => store = pre.store
    /\ store.live => /\ ~repo.bare
                     /\ ~repo.modified
                     /\ ~repo.untracked
                     /\ repo.remotes
                     /\ repo.remote_exists
    /\ call.op \in {"addblob", "addblobs", "getblobs"} => store.live

\* untracked files and no remote: the earlier check decides
C10_Witness ==
    /\ pc = "done"
    /\ call.op = "construct"
    /\ ~repo.bare
    /\ ~repo.modified
    /\ repo.untracked
    /\ ~repo.remotes
    /\ err = "RepoHasUntrackedFiles"
    /\ ~store.live

NonFinite == {"nan", "inf", "-inf"}

\* C11: a write with a NaN or infinite timestamp ends with TimeInvalid (or,
\* for a blob that is not bytes, with the earlier BlobTypeInvalid) and
\* writes no file; every record file of this format version has a name
\* that decodes to the finite integer timestamp it was written with.
C11_OnlyFiniteTimestamps ==
    /\ (InWrite /\ call.timestamp.kind \in NonFinite) =>
        /\ pc = "done"
        /\ err \in {"TimeInvalid", "BlobTypeInvalid"}
        /\ Times({"write"}) = call.num_added
        /\ call.path = <<>>
        /\ call.op = "addblob" => files = pre.files
    /\ \A n \in DOMAIN files :
        files[n].version <= FILE_VERSION =>
            /\ decode_name(n).ok
            /\ decode_name(n).v \in Int
            /\ decode_name(n).v = files[n].timestamp_ns

\* the second pair of addblobs has timestamp -inf; one record is on file
C11_Witness ==
    /\ call.op = "addblobs"
    /\ pc = "done"
    /\ call.timestamp.kind = "-inf"
    /\ err = "TimeInvalid"
    /\ call.num_added = 1
    /\ \E n \in DOMAIN files : files[n].timestamp_ns < 0

\* C12: for every width w, every int1 (negative too) and every int2 in
\* [0, 2^w), split(merge(int1, int2)) = (int1, int2); merge is
\* (int1 << w) | int2, which for such int2 is int1 * 2^w + int2, and the high
\* part of split is the floor of int12 / 2^w.
C12_MergeSplitRoundTrip ==
    call.op = "merge_split" =>
        /\ out[2] = <<call.int1, call.int2>>
        /\ out[1] = call.int1 * Pow2(call.num_bits_int2) + call.int2
        /\ (out[1] < 0) = (call.int1 < 0)
        /\ bit_length(out[1]) <= bit_length(call.int1) + call.num_bits_int2

\* int1 = -1 with a low part: a shift toward zero would give 0
C12_Witness ==
    /\ call.op = "merge_split"
    /\ call.num_bits_int2 = MaxWidth
    /\ call.int1 = -1
    /\ call.int2 = 1
    /\ out[1] = 1 - Pow2(MaxWidth)
    /\ out[2] = <<-1, 1>>

\* the integers an encoder is made for: any integer when signed and of
\* variable width, the naturals when unsigned, up to bits bits when fixed
Representable ==
    /\ call.signed \/ call.i >= 0
    /\ call.bits # 0 => Abs(call.i) < Pow2(call.bits)

\* C13: for each of the encodings, signed and unsigned, variable and fixed
\* width, every representable integer is encoded, and decoding the token
\* gives the integer back; in fixed-width mode all tokens have one length.
C13_EncodeDecodeRoundTrip ==
    call.op = "encode_decode" =>
        /\ Representable => out[1].ok
        /\ out[1].ok => out[2] = Ok(call.i)
        /\ (out[1].ok /\ call.bits # 0) =>
            Len(out[1].v) = Len(IntBaseEncoder_encode(call.encoding, call.bits,
                                                      call.signed, Pow2(call.bits) - 1).v)

\* -129 needs two bytes when signed; base85 makes three characters of them
C13_Witness ==
    /\ call.op = "encode_decode"
    /\ call.encoding = "b85"
    /\ call.signed
    /\ call.bits = 0
    /\ call.i = -129
    /\ out[1].ok
    /\ Len(out[1].v) = 3
    /\ out[2] = Ok(-129)

\* C17: in every configuration encode(0) is a token that is not empty, and
\* no token of that configuration is shorter.
C17_ZeroNonEmptyShortest ==
    (call.op = "encode_decode" /\ out[1].ok) =>
        LET zero == IntBaseEncoder_encode(call.encoding, call.bits, call.signed, 0)
        IN  /\ zero.ok
            /\ zero.v # <<>>
            /\ Len(zero.v) <= Len(out[1].v)

\* the unsigned variable-width encoder turns 0 into the empty token
C17_Witness ==
    /\ call.op = "encode_decode"
    /\ call.encoding = "urlsafe_b64"
    /\ ~call.signed
    /\ call.bits = 0
    /\ call.i = 0
    /\ out[1] = Ok(<<>>)
    /\ out[2] = Ok(0)

\* the classes of the error taxonomy of the store
StoreErrors ==
    {"StoreError", "RepoError", "RepoBare", "RepoUnclean", "RepoDirty",
     "RepoHasUntrackedFiles", "RepoNoRemote", "RepoRemoteNotAdded", "RepoRemoteNotExist",
     "BlobError", "BlobTypeInvalid", "BlobVersionUnsupported", "TimeError", "TimeInvalid",
     "TimeUnhandledType", "RepoTransportError", "RepoPullError", "RepoPushError"}

\* C14: decoding a name whose version tag is above FILE_VERSION fails with
\* BlobVersionUnsupported, and decoding a name whose stem or suffix cannot
\* be decoded at all fails with another error of the store's own taxonomy.
C14_DistinctDecodeFailures ==
    (pc = "decoded") =>
        /\ files[call.path].version > FILE_VERSION
                => out[1] = Raise("BlobVersionUnsupported")
        /\ files[call.path].version = 0
                => /\ ~out[1].ok
                   /\ out[1].v \in StoreErrors \ {"BlobVersionUnsupported"}

\* the name "x.AQ==", of version 1 and a stem that is no token, is decoded:
\* the error is the one of the base64 library
C14_Witness ==
    /\ pc = "decoded"
    /\ call.path = <<120, DotChar, 65, 81, PadChar, PadChar>>
    /\ out[1] = Raise("binascii.Error")

\* a query of the directory has ended: its bounds, the records of this
\* version in their range, and the order the results are to come in
DirQueried == pc = "queried" /\ StartBound.ok /\ EndBound.ok

Ascending == bound_leq(StartBound.v, EndBound.v)

InRange ==
    LET lo == IF Ascending THEN StartBound.v ELSE EndBound.v
        hi == IF Ascending THEN EndBound.v ELSE StartBound.v
    IN  {n \in DOMAIN files : /\ files[n].version = FILE_VERSION
                              /\ bound_leq(lo, Finite(files[n].timestamp_ns))
                              /\ bound_leq(Finite(files[n].timestamp_ns), hi)}

Precedes(a, b) ==
    IF Ascending
    THEN tuple_less(<<files[a].timestamp_ns, a>>, <<files[b].timestamp_ns, b>>)
    ELSE tuple_less(<<files[b].timestamp_ns, b>>, <<files[a].timestamp_ns, a>>)

Unreadable == {n \in InRange : ~egress_blob(store.cfg, files[n].bytes).ok}

\* the results of a query that ends at the first record that cannot be read
PipelineErrorPropagates ==
    \E f \in Unreadable :
        /\ \A g \in Unreadable \ {f} : Precedes(f, g)
        /\ Yielded = {n \in InRange : Precedes(n, f)}
        /\ Len(out) = Cardinality(Yielded)
        /\ \A i \in 1..Len(out) : out[i].blob = files[out[i].path].blob
        /\ \A i \in 1..Len(out), j \in 1..Len(out) :
                i < j => Precedes(out[i].path, out[j].path)
        /\ err = egress_blob(store.cfg, files[f].bytes).v
        /\ err \in {"InvalidToken", "DecompressError"}

\* the loop that yields is entered once every name of the directory has been
\* decoded; the egress of a record is run there
EgressFails == Unreadable # {} /\ \A n \in DOMAIN files : decode_name(n).ok

\* C15: when the egress of a record in the range of a query fails, getblobs
\* yields exactly the records before it in the result order, with their
\* payloads, and then raises the error of that egress; the record is neither
\* yielded nor skipped.
C15_PipelineErrorPropagates == (DirQueried /\ EgressFails) => PipelineErrorPropagates

\* a record of another key lies between two records of this store: the
\* ascending query over the three yields the first and ends with InvalidToken
C15_Witness ==
    /\ DirQueried
    /\ EgressFails
    /\ Ascending
    /\ Cardinality(InRange) = 3
    /\ \E f \in Unreadable : \E a, b \in InRange : Precedes(a, f) /\ Precedes(f, b)
    /\ Len(out) = 1
    /\ err = "InvalidToken"

\* a write call has ended whose first push raised a command error
FirstPushRaised ==
    /\ InWrite
    /\ pc = "done"
    /\ Times({"push"}) >= 1
    /\ NthResult({"push"}, 1) = "GitCommandError"

PushFailures == {"RepoPushError", "RepoPullError", "GitCommandError"}

\* C16, as stated: after a first push that raised a command error there is
\* exactly one push that sets the upstream and no pull; the call succeeds
\* only if that push reports the branch set up to track the remote branch,
\* and ends with RepoPushError on any other result of it.
C16_SetUpstreamOrPushError ==
    FirstPushRaised =>
        /\ Times({"push_set_upstream"}) = 1
        /\ Times({"push"}) = 1
        /\ Times({"pull"}) = 0
        /\ IF NthResult({"push_set_upstream"}, 1) = "expected_msg"
           THEN err \notin PushFailures
           ELSE err = "RepoPushError"

\* C16, amended: RepoPushError on any other output of that push; a command
\* error that it raises ends the call as it is.
C16_SetUpstreamOrPushErrorUnlessRaised ==
    FirstPushRaised =>
        /\ Times({"push_set_upstream"}) = 1
        /\ Times({"push"}) = 1
        /\ Times({"pull"}) = 0
        /\ NthResult({"push_set_upstream"}, 1) = "expected_msg" => err \notin PushFailures
        /\ NthResult({"push_set_upstream"}, 1) = "other" => err = "RepoPushError"
        /\ NthResult({"push_set_upstream"}, 1) = "GitCommandError" => err = "GitCommandError"

\* the first push raised and the push that sets the upstream printed
\* something else than the expected message
C16_Witness ==
    /\ FirstPushRaised
    /\ Times({"push_set_upstream"}) = 1
    /\ NthResult({"push_set_upstream"}, 1) = "other"
    /\ Times({"pull"}) = 0
    /\ err = "RepoPushError"

\* the i-th event of the trace is a push that returned flags
Returned(i) == trace[i].op = "push" /\ trace[i].result # "GitCommandError"

\* C18: a push is accepted only with the flags FAST_FORWARD or NEW_HEAD; a
\* first push of UP_TO_DATE goes on to the pull and the second push, and a
\* second push of UP_TO_DATE ends the call with RepoPushError, the commit
\* being made by then.
C18_UpToDateNotPushed ==
    InWrite =>
        /\ \A i \in At({"push"}) :
            (/\ Returned(i)
             /\ trace[i].result \notin {"FAST_FORWARD", "NEW_HEAD"}) =>
                IF i = Len(trace)
                THEN IF Times({"push"}) = 1 THEN pc = "pull"
                     ELSE pc = "done" /\ err = "RepoPushError"
                ELSE trace[i + 1].op = "pull"
        /\ \A i \in At({"push"}) :
            (Returned(i) /\ i = Len(trace) /\ pc = "done" /\ err = "RepoPushError") =>
                trace[i].result \notin {"FAST_FORWARD", "NEW_HEAD"}
        /\ (/\ pc = "done"
            /\ Times({"push"}) = 2
            /\ NthResult({"push"}, 1) = "UP_TO_DATE"
            /\ NthResult({"push"}, 2) = "UP_TO_DATE") =>
                /\ Times({"pull"}) = 1
                /\ err = "RepoPushError"
                /\ Times({"commit"}) = 1
                /\ \A n \in DOMAIN index : n \in DOMAIN head /\ head[n] = index[n]

\* both pushes of an addblob call reported UP_TO_DATE: RepoPushError, and the
\* record is in the commit
C18_Witness ==
    /\ call.op = "addblob"
    /\ pc = "done"
    /\ Times({"push"}) = 2
    /\ NthResult({"push"}, 1) = "UP_TO_DATE"
    /\ NthResult({"push"}, 2) = "UP_TO_DATE"
    /\ Times({"pull"}) = 1
    /\ err = "RepoPushError"
    /\ call.path \in DOMAIN head

\* C19: getblobs writes no file and stages, commits and pushes nothing;
\* without pull it makes no call of git and leaves the directory as it was;
\* with pull it pulls exactly once, after both bounds are normalized and
\* before the directory is listed, and not at all when a bound is refused.
C19_ReadIsEffectFree ==
    (call.op = "getblobs" /\ pc = "done") =>
        /\ \A i \in 1..Len(trace) : trace[i].op = "pull"
        /\ \A n \in DOMAIN pre.files : n \in DOMAIN files /\ files[n] = pre.files[n]
        /\ \A n \in DOMAIN pre.index : n \in DOMAIN index /\ index[n] = pre.index[n]
        /\ \A n \in DOMAIN pre.head : n \in DOMAIN head /\ head[n] = pre.head[n]
        /\ store = pre.store
        /\ ~call.pull =>
            /\ trace = <<>>
            /\ files = pre.files /\ index = pre.index /\ head = pre.head
        /\ (call.pull /\ StartBound.ok /\ EndBound.ok) =>
            /\ Times({"pull"}) = 1
            /\ err # "RepoPullError" =>
                    /\ out = getblobs(store.cfg, files, call.start_time, call.end_time).out
                    /\ err = getblobs(store.cfg, files, call.start_time, call.end_time).err
        /\ (~StartBound.ok \/ ~EndBound.ok) =>
            /\ trace = <<>>
            /\ files = pre.files /\ index = pre.index /\ head = pre.head
            /\ err \in TimeErrors
            /\ out = <<>>

\* a query with pull whose one pull brought a file of a newer version: the
\* listing that follows meets it
C19_Witness ==
    /\ call.op = "getblobs"
    /\ pc = "done"
    /\ call.pull
    /\ trace = <<GitEvent("pull", "FAST_FORWARD")>>
    /\ files # pre.files
    /\ pre.files # NoFiles
    /\ err = "BlobVersionUnsupported"

\* a record has just been written into the directory
Written == pc = "dir" /\ call.op = "write"

\* the records of this version that were in the directory before that write
Before == {n \in DOMAIN pre.files : pre.files[n].version = FILE_VERSION}

\* C20: a write gets the name of an earlier record if and only if their
\* canonical timestamps are equal and their nonces are equal; a write of a
\* new name adds a file and leaves the others as they are, each record of
\* this store readable; a write of a name that exists replaces the content
\* of that file.
C20_NameInjectiveAndOverwrite ==
    Written =>
        /\ \A n \in Before :
            (n = call.path) <=> (/\ pre.files[n].timestamp_ns = call.timestamp_ns
                                 /\ pre.files[n].random = call.random)
        /\ DOMAIN files = DOMAIN pre.files \cup {call.path}
        /\ \A n \in DOMAIN pre.files \ {call.path} : files[n] = pre.files[n]
        /\ files[call.path].blob = call.blob_original
        /\ egress_blob(store.cfg, files[call.path].bytes) = Ok(call.blob_original)
        /\ \A n \in Before :
            egress_blob(store.cfg, pre.files[n].bytes) = Ok(pre.files[n].blob)
                => egress_blob(store.cfg, files[n].bytes) = Ok(files[n].blob)
        /\ err = "None"

\* beside a record of the same timestamp and another nonce, which is still
\* read, a record is written again under its name with another payload
C20_Witness ==
    /\ Written
    /\ \E n \in Before :
        /\ n # call.path
        /\ pre.files[n].timestamp_ns = call.timestamp_ns
        /\ pre.files[n].random # call.random
        /\ egress_blob(store.cfg, files[n].bytes) = Ok(files[n].blob)
    /\ call.path \in Before
    /\ pre.files[call.path].blob # call.blob_original
    /\ egress_blob(store.cfg, files[call.path].bytes) = Ok(call.blob_original)

====
